---- MODULE Spec2Model ----
(***************************************************************************)
(* A model of the ray tracer's core: Interval, Vec3, Ray, Color,           *)
(* HitRecord, Sphere, HittableList, the materials, Camera::new,            *)
(* Camera::ray_color, Camera::render, create_ppm and PpmWriter.            *)
(*                                                                         *)
(* Numbers.  The program computes in f64 (Vec3, Interval) and f32 (Color). *)
(* The model computes in fixed point: a program value x is the integer     *)
(* x * Scale, and every product, quotient and square root is rounded to    *)
(* the nearest representable value, symmetrically in the sign, as the      *)
(* IEEE operations round.  The inputs are drawn from small sets of values  *)
(* that f64 and the fixed-point grid both represent exactly.  +infinity is *)
(* the value Inf, larger than every value the model computes.              *)
(***************************************************************************)
EXTENDS Integers, Sequences, FiniteSets, TLC

\* ------------------------------------------------------------------ f64
Scale == 1000

Inf == 1000000000

Abs(x) == IF x < 0 THEN -x ELSE x

\* n / d rounded to the nearest integer, halves away from zero (d # 0).
RoundDiv(n, d) ==
    LET q == (2 * Abs(n) + Abs(d)) \div (2 * Abs(d))
    IN  IF (n < 0) = (d < 0) THEN q ELSE -q

\* f64 multiplication and division.
FMul(x, y) == RoundDiv(x * y, Scale)

FDiv(x, y) == RoundDiv(x * Scale, y)

RECURSIVE ISqrtBetween(_, _, _)
\* The largest k in lo..hi with k*k <= n (lo*lo <= n < (hi+1)*(hi+1)).
ISqrtBetween(n, lo, hi) ==
    IF lo = hi THEN lo
    ELSE LET mid == (lo + hi + 1) \div 2
         IN  IF mid * mid <= n THEN ISqrtBetween(n, mid, hi)
             ELSE ISqrtBetween(n, lo, mid - 1)

\* f64::sqrt of a non-negative value, rounded to nearest.
FSqrt(x) ==
    LET n == x * Scale
        k == ISqrtBetween(n, 0, 40000)
    IN  IF n - k * k > k THEN k + 1 ELSE k

FMin(x, y) == IF x < y THEN x ELSE y

FMax(x, y) == IF x > y THEN x ELSE y

\* ----------------------------------------------------------------- Vec3
Vec3_new(x, y, z) == <<x, y, z>>

Neg(v) == <<-v[1], -v[2], -v[3]>>

VAdd(u, v) == <<u[1] + v[1], u[2] + v[2], u[3] + v[3]>>

VSub(u, v) == <<u[1] - v[1], u[2] - v[2], u[3] - v[3]>>

\* f64 * Vec3 and Vec3 * f64.
VScale(k, v) == <<FMul(k, v[1]), FMul(k, v[2]), FMul(k, v[3])>>

\* Vec3 / f64 is self * (1.0 / rhs).
VDiv(v, k) == VScale(FDiv(Scale, k), v)

dot(u, v) == FMul(u[1], v[1]) + FMul(u[2], v[2]) + FMul(u[3], v[3])

len_sqr(v) == dot(v, v)

len(v) == FSqrt(len_sqr(v))

cross(u, v) ==
    <<FMul(u[2], v[3]) - FMul(u[3], v[2]),
      FMul(u[3], v[1]) - FMul(u[1], v[3]),
      FMul(u[1], v[2]) - FMul(u[2], v[1])>>

unit(v) == VDiv(v, len(v))

\* ------------------------------------------------------------------ Ray
Ray_new(origin, direction) == [origin |-> origin, direction |-> direction]

at(ray, t) == VAdd(ray.origin, VScale(t, ray.direction))

\* ------------------------------------------------------------- Interval
Interval_new(min, max) == [min |-> min, max |-> max]

\* A contains that leaves the upper bound out.
contains_open_above(iv, x) == iv.min <= x /\ x < iv.max

contains(iv, x) == iv.min <= x /\ x <= iv.max

\* A surrounds that lets the bounds in.
surrounds_inclusive(iv, x) == iv.min <= x /\ x <= iv.max

surrounds(iv, x) == iv.min < x /\ x < iv.max

surrounds_or_min(iv, x) == iv.min <= x /\ x < iv.max

\* A surrounds_or_max that lets in the wrong bound.
surrounds_or_max_swapped(iv, x) == iv.min <= x /\ x < iv.max

surrounds_or_max(iv, x) == iv.min < x /\ x <= iv.max

clamp(iv, x) ==
    IF x < iv.min THEN iv.min
    ELSE IF x > iv.max THEN iv.max
    ELSE x

\* --------------------------------------------------------------- Option
None == <<>>

Some(x) == <<x>>

IsSome(o) == o # <<>>

Unwrap(o) == o[1]

\* ---------------------------------------------------------------- Color
Color_new(r, g, b) == <<r, g, b>>

Black == Color_new(0, 0, 0)

White == Color_new(Scale, Scale, Scale)

\* Color + Color.
CAdd(c, d) == <<c[1] + d[1], c[2] + d[2], c[3] + d[3]>>

\* f32 * Color.
CScale(k, c) == <<FMul(k, c[1]), FMul(k, c[2]), FMul(k, c[3])>>

\* Color * Color, the component-wise product.
CMul(c, d) == <<FMul(c[1], d[1]), FMul(c[2], d[2]), FMul(c[3], d[3])>>

\* Color / f32: the color times the reciprocal.
CDiv(c, k) == CScale(FDiv(Scale, k), c)

\* Color::INTENSITY, the interval [0, 0.999999]: its upper bound is the
\* largest value below 1.
INTENSITY == Interval_new(0, Scale - 1)

\* A byte rounded to the nearest instead of floored.
make_byte_rounded(channel) == RoundDiv(clamp(INTENSITY, channel) * 255, Scale)

\* floor(clamp(channel) * 255) as u8
make_byte(channel) == (clamp(INTENSITY, channel) * 255) \div Scale

to_rgb24(c) == <<make_byte(c[1]), make_byte(c[2]), make_byte(c[3])>>

linear_to_gamma(channel) == IF channel > 0 THEN FSqrt(channel) ELSE 0

gamma_correct(c) ==
    Color_new(linear_to_gamma(c[1]), linear_to_gamma(c[2]), linear_to_gamma(c[3]))

\* ------------------------------------------------------------ HitRecord
\* A record that tags the side and forgets to turn the normal.
HitRecord_new_unflipped(p, normal, t, ray, material) ==
    [p |-> p, normal |-> normal, material |-> material, t |-> t,
     orientation |-> IF dot(ray.direction, normal) < 0 THEN "Exterior" ELSE "Interior"]

HitRecord_new(p, normal, t, ray, material) ==
    IF dot(ray.direction, normal) < 0
    THEN [p |-> p, normal |-> normal, material |-> material, t |-> t,
          orientation |-> "Exterior"]
    ELSE [p |-> p, normal |-> Neg(normal), material |-> material, t |-> t,
          orientation |-> "Interior"]

\* --------------------------------------------------------------- Sphere
Sphere_new(center, radius, material) ==
    [center |-> center, radius |-> radius, material |-> material]

\* A choice of root that tries the larger root first.
Sphere_root_far_first(a, half_b, sqrtd, ray_t) ==
    LET root1 == FDiv(-half_b - sqrtd, a)
        root2 == FDiv(-half_b + sqrtd, a)
    IN  IF ~surrounds(ray_t, root2)
        THEN IF ~surrounds(ray_t, root1) THEN None ELSE Some(root1)
        ELSE Some(root2)

\* The root Sphere::hit settles on, or None.
Sphere_root(a, half_b, sqrtd, ray_t) ==
    LET root1 == FDiv(-half_b - sqrtd, a)
        root2 == FDiv(-half_b + sqrtd, a)
    IN  IF ~surrounds(ray_t, root1)
        THEN IF ~surrounds(ray_t, root2) THEN None ELSE Some(root2)
        ELSE Some(root1)

\* Sphere::hit from the root on: the point, the outward normal, the record.
Sphere_hit_at(s, ray, t, p) ==
    Some(HitRecord_new(p, VDiv(VSub(p, s.center), s.radius), t, ray, s.material))

Sphere_hit_root(s, ray, root) ==
    IF ~IsSome(root) THEN None
    ELSE Sphere_hit_at(s, ray, Unwrap(root), at(ray, Unwrap(root)))

Sphere_hit(s, ray, ray_t) ==
    LET oc == VSub(ray.origin, s.center)
        a == len_sqr(ray.direction)
        half_b == dot(oc, ray.direction)
        c == len_sqr(oc) - FMul(s.radius, s.radius)
        discriminant == FMul(half_b, half_b) - FMul(a, c)
    IN  IF discriminant < 0 THEN None
        ELSE Sphere_hit_root(s, ray, Sphere_root(a, half_b, FSqrt(discriminant), ray_t))

\* --------------------------------------------------------- HittableList
\* A fold that keeps the record and forgets to narrow t_max.
HitFoldAccept_keep_max(acc, h) == IF IsSome(h) THEN <<h, acc[2]>> ELSE acc

\* One step of the fold of HittableList::hit: acc is <<rec, t_max>> and h
\* what the object answered.
HitFoldAccept(acc, h) == IF IsSome(h) THEN <<h, Unwrap(h).t>> ELSE acc

\* A fold that tests every object with the whole interval.
HitFoldStep_whole(acc, object, ray, ray_t) ==
    HitFoldAccept(acc, Sphere_hit(object, ray, ray_t))

HitFoldStep(acc, object, ray, ray_t) ==
    HitFoldAccept(acc, Sphere_hit(object, ray, Interval_new(ray_t.min, acc[2])))

RECURSIVE HitFold(_, _, _, _)
HitFold(objs, acc, ray, ray_t) ==
    IF objs = <<>> THEN acc
    ELSE HitFold(Tail(objs), HitFoldStep(acc, Head(objs), ray, ray_t), ray, ray_t)

HittableList_hit(objs, ray, ray_t) == HitFold(objs, <<None, ray_t.max>>, ray, ray_t)[1]

\* ------------------------------------------------------------- Material
\* F64_TOLERANCE is 1e-8: of the values the model represents, only 0 is
\* below it in magnitude.
almost_zero(v) == \A i \in 1..3 : Abs(v[i]) < 1

reflect(v, normal) == VSub(v, VScale(FMul(2 * Scale, dot(v, normal)), normal))

refract(uv, normal, eta_i_over_eta_t) ==
    LET cos_theta == FMin(dot(Neg(uv), normal), Scale)
        ray_out_perp == VScale(eta_i_over_eta_t, VAdd(uv, VScale(cos_theta, normal)))
        ray_out_para == VScale(-FSqrt(Abs(Scale - len_sqr(ray_out_perp))), normal)
    IN  VAdd(ray_out_perp, ray_out_para)

Lambertian_new(albedo) ==
    [kind |-> "Lambertian", albedo |-> albedo, fuzz |-> 0, refractive_index |-> 0]

Metallic_new(albedo, fuzz) ==
    [kind |-> "Metallic", albedo |-> albedo, fuzz |-> FMin(fuzz, Scale),
     refractive_index |-> 0]

Dielectric_new(refractive_index) ==
    [kind |-> "Dielectric", albedo |-> White, fuzz |-> 0,
     refractive_index |-> refractive_index]

\* The result of a scatter: Some of the outgoing ray and the attenuation.
Scattered(ray, attenuation) == Some([ray |-> ray, attenuation |-> attenuation])

\* A scatter that keeps the degenerate direction.
Lambertian_scatter_degenerate(m, ray, rec, random_unit) ==
    Scattered(Ray_new(rec.p, VAdd(rec.normal, random_unit)), m.albedo)

\* random_unit is the value Vec3::random_unit() returned.
\* A diffuse surface that hands the light on undimmed.
Lambertian_scatter_white(m, ray, rec, random_unit) ==
    LET scatter_direction == VAdd(rec.normal, random_unit)
    IN  IF ~almost_zero(scatter_direction)
        THEN Scattered(Ray_new(rec.p, scatter_direction), White)
        ELSE Scattered(Ray_new(rec.p, rec.normal), White)

Lambertian_scatter(m, ray, rec, random_unit) ==
    LET scatter_direction == VAdd(rec.normal, random_unit)
    IN  IF ~almost_zero(scatter_direction)
        THEN Scattered(Ray_new(rec.p, scatter_direction), m.albedo)
        ELSE Scattered(Ray_new(rec.p, rec.normal), m.albedo)

\* A scatter that lets the grazing ray through.
Metallic_scatter_grazing(m, ray, rec, random_unit) ==
    LET reflected0 == reflect(ray.direction, rec.normal)
        reflected == VAdd(unit(reflected0), VScale(m.fuzz, random_unit))
        scattered == Ray_new(rec.p, reflected)
    IN  IF dot(scattered.direction, rec.normal) >= 0
        THEN Scattered(scattered, m.albedo)
        ELSE None

Metallic_scatter(m, ray, rec, random_unit) ==
    LET reflected0 == reflect(ray.direction, rec.normal)
        reflected == VAdd(unit(reflected0), VScale(m.fuzz, random_unit))
        scattered == Ray_new(rec.p, reflected)
    IN  IF dot(scattered.direction, rec.normal) > 0
        THEN Scattered(scattered, m.albedo)
        ELSE None

reflectance_schlick(cosine, refractive_index) ==
    LET r0a == FDiv(Scale - refractive_index, Scale + refractive_index)
        r0 == FMul(r0a, r0a)
        x == Scale - cosine
        x5 == FMul(FMul(FMul(FMul(x, x), x), x), x)
    IN  r0 + FMul(Scale - r0, x5)

\* A LambertianRandom, or a panic when the assertion on p fails.
LambertianRandom_new(albedo, p, is_attenuated) ==
    IF ~(0 <= p /\ p <= Scale) THEN [kind |-> "panic"]
    ELSE [kind |-> "LambertianRandom",
          albedo |-> IF is_attenuated THEN CDiv(albedo, p) ELSE albedo,
          p |-> p]

\* r is the value util::gen_unit() returned, random_unit the value
\* Vec3::random_unit() returned.
LambertianRandom_scatter(m, ray, rec, r, random_unit) ==
    IF r <= m.p THEN None
    ELSE LET scatter_direction == VAdd(rec.normal, random_unit)
         IN  IF ~almost_zero(scatter_direction)
             THEN Scattered(Ray_new(rec.p, scatter_direction), m.albedo)
             ELSE Scattered(Ray_new(rec.p, rec.normal), m.albedo)

\* A glass that absorbs the ray on total internal reflection.
Dielectric_scatter_absorbing(m, ray, rec, gen_unit) ==
    LET ri == IF rec.orientation = "Exterior"
              THEN FDiv(Scale, m.refractive_index)
              ELSE m.refractive_index
        unit_direction == unit(ray.direction)
        cos_theta == FMin(dot(Neg(unit_direction), rec.normal), Scale)
        sin_theta == FSqrt(Scale - FMul(cos_theta, cos_theta))
    IN  IF FMul(ri, sin_theta) > Scale THEN None
        ELSE IF reflectance_schlick(cos_theta, ri) > gen_unit
        THEN Scattered(Ray_new(rec.p, reflect(unit_direction, rec.normal)), White)
        ELSE Scattered(Ray_new(rec.p, refract(unit_direction, rec.normal, ri)), White)

\* A glass with the two ratios the wrong way round.
Dielectric_scatter_swapped(m, ray, rec, gen_unit) ==
    LET ri == IF rec.orientation = "Exterior"
              THEN m.refractive_index
              ELSE FDiv(Scale, m.refractive_index)
        unit_direction == unit(ray.direction)
        cos_theta == FMin(dot(Neg(unit_direction), rec.normal), Scale)
        sin_theta == FSqrt(Scale - FMul(cos_theta, cos_theta))
    IN  IF FMul(ri, sin_theta) > Scale \/ reflectance_schlick(cos_theta, ri) > gen_unit
        THEN Scattered(Ray_new(rec.p, reflect(unit_direction, rec.normal)), White)
        ELSE Scattered(Ray_new(rec.p, refract(unit_direction, rec.normal, ri)), White)

\* gen_unit is the value util::gen_unit() returned.
Dielectric_scatter(m, ray, rec, gen_unit) ==
    LET ri == IF rec.orientation = "Exterior"
              THEN FDiv(Scale, m.refractive_index)
              ELSE m.refractive_index
        unit_direction == unit(ray.direction)
        cos_theta == FMin(dot(Neg(unit_direction), rec.normal), Scale)
        sin_theta == FSqrt(Scale - FMul(cos_theta, cos_theta))
        total_internal_reflection == FMul(ri, sin_theta) > Scale
        schlick == reflectance_schlick(cos_theta, ri)
        reflect_schlick == schlick > gen_unit
        direction == IF total_internal_reflection \/ reflect_schlick
                     THEN reflect(unit_direction, rec.normal)
                     ELSE refract(unit_direction, rec.normal, ri)
    IN  Scattered(Ray_new(rec.p, direction), White)

\* rec.material.scatter(ray, rec): the dispatch on the material of the record.
scatter(m, ray, rec, random_unit, gen_unit) ==
    CASE m.kind = "Lambertian" -> Lambertian_scatter(m, ray, rec, random_unit)
      [] m.kind = "Metallic" -> Metallic_scatter(m, ray, rec, random_unit)
      [] m.kind = "Dielectric" -> Dielectric_scatter(m, ray, rec, gen_unit)

\* --------------------------------------------------------------- Camera
INITIAL_T_BOUND == Interval_new(Scale \div 1000, Inf)

\* An Error of kind Camera.  The message "<param> must be greater than 0
\* (given <given>)" is kept as the parameter it names and the value it prints.
new_camera(param, given) == [kind |-> "Camera", param |-> param, given |-> given]

Ok(x) == [ok |-> TRUE, value |-> x]

Err(e) == [ok |-> FALSE, error |-> e]

\* tan of half of an angle given in degrees (to_radians, then tan), on the
\* angles the model uses.
TanHalfDegrees(deg) ==
    CASE deg = 0 -> 0
      [] deg = 90 * Scale -> Scale

\* `x as u32` of a non-negative f64: the fraction is dropped.
AsU32(x) == x \div Scale

\* `n as f64` of a u32.
AsF64(n) == n * Scale

Camera_build(aspect_ratio, image_width, samples_per_pixel, max_depth, vfov, look_from, look_at, vup, defocus_angle, focus_dist) ==
    LET image_height == AsU32(FMax(FDiv(AsF64(image_width), aspect_ratio), Scale))
        center == look_from
        h == TanHalfDegrees(vfov)
        viewport_height == FMul(FMul(2 * Scale, h), focus_dist)
        viewport_width ==
            FMul(viewport_height, FDiv(AsF64(image_width), AsF64(image_height)))
        w == unit(VSub(look_from, look_at))
        u == unit(cross(vup, w))
        v == cross(w, u)
        viewport_u == VScale(viewport_width, u)
        viewport_v == VScale(viewport_height, Neg(v))
        pixel_delta_u == VDiv(viewport_u, AsF64(image_width))
        pixel_delta_v == VDiv(viewport_v, AsF64(image_height))
        viewport_upper_left ==
            VSub(VSub(VSub(center, VScale(focus_dist, w)),
                      VDiv(viewport_u, 2 * Scale)),
                 VDiv(viewport_v, 2 * Scale))
        pixel00_loc ==
            VAdd(viewport_upper_left,
                 VScale(Scale \div 2, VAdd(pixel_delta_u, pixel_delta_v)))
        defocus_radius == FMul(focus_dist, TanHalfDegrees(defocus_angle))
    IN  [aspect_ratio |-> aspect_ratio, image_width |-> image_width,
         image_height |-> image_height, max_depth |-> max_depth,
         samples_per_pixel |-> samples_per_pixel, vfov |-> vfov,
         look_from |-> look_from, look_at |-> look_at, vup |-> vup,
         defocus_angle |-> defocus_angle, focus_dist |-> focus_dist,
         center |-> center, pixel00_loc |-> pixel00_loc,
         pixel_delta_u |-> pixel_delta_u, pixel_delta_v |-> pixel_delta_v,
         u |-> u, v |-> v, w |-> w,
         defocus_disk_u |-> VScale(defocus_radius, u),
         defocus_disk_v |-> VScale(defocus_radius, v)]

\* A constructor that forgets to test max_depth.
Camera_new_any_depth(aspect_ratio, image_width, samples_per_pixel, max_depth, vfov, look_from, look_at, vup, defocus_angle, focus_dist) ==
    IF aspect_ratio <= 0
    THEN Err(new_camera("aspect_ratio", aspect_ratio))
    ELSE IF image_width = 0
    THEN Err(new_camera("image_width", image_width))
    ELSE IF samples_per_pixel = 0
    THEN Err(new_camera("samples_per_pixel", samples_per_pixel))
    ELSE Ok(Camera_build(aspect_ratio, image_width, samples_per_pixel, max_depth,
                         vfov, look_from, look_at, vup, defocus_angle, focus_dist))

Camera_new(aspect_ratio, image_width, samples_per_pixel, max_depth, vfov, look_from, look_at, vup, defocus_angle, focus_dist) ==
    IF aspect_ratio <= 0
    THEN Err(new_camera("aspect_ratio", aspect_ratio))
    ELSE IF image_width = 0
    THEN Err(new_camera("image_width", image_width))
    ELSE IF samples_per_pixel = 0
    THEN Err(new_camera("samples_per_pixel", samples_per_pixel))
    ELSE IF max_depth = 0
    THEN Err(new_camera("max_depth", samples_per_pixel))
    ELSE Ok(Camera_build(aspect_ratio, image_width, samples_per_pixel, max_depth,
                         vfov, look_from, look_at, vup, defocus_angle, focus_dist))

\* The background of ray_color: the gradient from white to sky blue.
background(ray) ==
    LET unit_dir == unit(ray.direction)
        a == FMul(Scale \div 2, unit_dir[2] + Scale)
    IN  CAdd(CScale(Scale - a, Color_new(Scale, Scale, Scale)),
             CScale(a, Color_new(Scale \div 2, (7 * Scale) \div 10, Scale)))

\* One activation of Camera::ray_color, up to its return or its recursive
\* call.  hit_tests and scatter_calls count the calls this activation made;
\* ret is the value returned, None while the recursive call is pending.
ray_color_scattered(h, sc) ==
    IF IsSome(sc)
    THEN [outcome |-> "scattered", hit_tests |-> 1, scatter_calls |-> 1,
          rec |-> h, sc |-> sc, ret |-> None]
    ELSE [outcome |-> "absorbed", hit_tests |-> 1, scatter_calls |-> 1,
          rec |-> h, sc |-> sc, ret |-> Some(Color_new(0, 0, 0))]

ray_color_hit(ray, h, random_unit, gen_unit) ==
    IF IsSome(h)
    THEN ray_color_scattered(h, scatter(Unwrap(h).material, ray, Unwrap(h),
                                        random_unit, gen_unit))
    ELSE [outcome |-> "miss", hit_tests |-> 1, scatter_calls |-> 0,
          rec |-> None, sc |-> None, ret |-> Some(background(ray))]

\* A ray_color that forgets its depth test.
ray_color_unbounded(ray, depth, world, random_unit, gen_unit) ==
    ray_color_hit(ray, HittableList_hit(world, ray, INITIAL_T_BOUND),
                  random_unit, gen_unit)

ray_color(ray, depth, world, random_unit, gen_unit) ==
    IF depth = 0
    THEN [outcome |-> "depth0", hit_tests |-> 0, scatter_calls |-> 0,
          rec |-> None, sc |-> None, ret |-> Some(Color_new(0, 0, 0))]
    ELSE ray_color_hit(ray, HittableList_hit(world, ray, INITIAL_T_BOUND),
                       random_unit, gen_unit)

\* A recursive call that passes its own depth on.
ray_color_recurse_same(depth, sc) == [ray |-> Unwrap(sc).ray, depth |-> depth]

\* The arguments of the recursive call an activation makes.
ray_color_recurse(depth, sc) == [ray |-> Unwrap(sc).ray, depth |-> depth - 1]

\* A combination that adds the attenuation.
ray_color_combine_sum(attenuation, inner) == CAdd(attenuation, inner)

\* The value an activation returns once its recursive call has returned.
ray_color_combine(attenuation, inner) == CMul(attenuation, inner)

\* ------------------------------------------------------- Camera::render
dim(camera) == <<camera.image_width, camera.image_height>>

\* Camera::pixel_sample_square, with the two values gen_unit() returned.
pixel_sample_square(camera, gx, gy) ==
    VAdd(VScale(gx - Scale \div 2, camera.pixel_delta_u),
         VScale(gy - Scale \div 2, camera.pixel_delta_v))

\* Camera::sample_defocus_disk, with the point random_on_unit_disk() returned.
sample_defocus_disk(camera, p) ==
    VAdd(VAdd(camera.center, VScale(p[1], camera.defocus_disk_u)),
         VScale(p[2], camera.defocus_disk_v))

\* Camera::get_ray(row, col)
get_ray(camera, row, col, gx, gy, p) ==
    LET pixel_u == VScale(AsF64(col), camera.pixel_delta_u)
        pixel_v == VScale(AsF64(row), camera.pixel_delta_v)
        pixel_center == VAdd(VAdd(camera.pixel00_loc, pixel_u), pixel_v)
        pixel_sample == VAdd(pixel_center, pixel_sample_square(camera, gx, gy))
        ray_origin == IF camera.defocus_angle <= 0 THEN camera.center
                      ELSE sample_defocus_disk(camera, p)
    IN  Ray_new(ray_origin, VSub(pixel_sample, ray_origin))

\* A pixel loop that walks the image column by column.
render_next_by_column(camera, row, col) ==
    IF row + 1 < camera.image_height THEN Some(<<row + 1, col>>)
    ELSE IF col + 1 < camera.image_width THEN Some(<<0, col + 1>>)
    ELSE None

\* The pixel the loops of render visit after (row, col), None after the last.
render_next(camera, row, col) ==
    IF col + 1 < camera.image_width THEN Some(<<row, col + 1>>)
    ELSE IF row + 1 < camera.image_height THEN Some(<<row + 1, 0>>)
    ELSE None

\* A pixel that is pushed as the sum of its samples.
render_pixel_sum(camera, pixel_color) == pixel_color

\* The color render pushes for a pixel.
render_pixel(camera, pixel_color) ==
    CDiv(pixel_color, AsF64(camera.samples_per_pixel))

\* Bytes that skip the gamma correction.
create_ppm_color_linear(color) == to_rgb24(color)

\* The bytes create_ppm makes of one color.
create_ppm_color(color) == to_rgb24(gamma_correct(color))

RECURSIVE create_ppm_data(_)
\* The buffer create_ppm hands to the encoder.
create_ppm_data(data) ==
    IF data = <<>> THEN <<>>
    ELSE create_ppm_color(Head(data)) \o create_ppm_data(Tail(data))

\* ------------------------------------------------------------ the inputs
MaxObjects == 2

MaxDepth == 2

MaxU32 == 2

V(x, y, z) == Vec3_new(x * Scale, y * Scale, z * Scale)

LamAlbedo == Color_new(Scale \div 2, Scale \div 2, Scale \div 2)
Lam == Lambertian_new(LamAlbedo)

MetAlbedo == Color_new((8 * Scale) \div 10, (6 * Scale) \div 10, (2 * Scale) \div 10)
Met == Metallic_new(MetAlbedo, Scale)

Die == Dielectric_new((3 * Scale) \div 2)

\* Two spheres touching at (0,0,-3), a glass sphere in the place of the
\* first, and a mirror behind the camera.
SphereSet ==
    { Sphere_new(V(0, 0, -2), Scale, Lam),
      Sphere_new(V(0, 0, -4), Scale, Met),
      Sphere_new(V(0, 0, -2), Scale, Die),
      Sphere_new(V(0, 0, 2), Scale, Met) }

\* Rays from the camera, from the centre of a sphere, from its surface,
\* grazing it, and missing everything.
RaySet ==
    { Ray_new(V(0, 0, 0), V(0, 0, -1)),
      Ray_new(V(0, 0, 0), V(0, 0, -2)),
      Ray_new(V(0, 0, -2), V(0, 0, -1)),
      Ray_new(V(0, 0, -1), V(0, 0, -1)),
      Ray_new(V(1, 0, 0), V(0, 0, -1)),
      Ray_new(V(0, 0, 0), V(0, 1, 0)) }

IntervalSet ==
    { INITIAL_T_BOUND,
      Interval_new(Scale, Inf),
      Interval_new(Scale \div 1000, Scale),
      Interval_new(Scale \div 1000, 3 * Scale),
      Interval_new(Inf, -Inf) }

\* The values Vec3::random_unit() and util::gen_unit() may return.
RandomUnits == { V(1, 0, 0), V(-1, 0, 0), V(0, 1, 0), V(0, -1, 0), V(0, 0, 1), V(0, 0, -1) }

GenUnits == { 0, Scale \div 2 }

NormalSet == RandomUnits \cup { V(1, 0, 1), Vec3_new(0, (6 * Scale) \div 10, (8 * Scale) \div 10) }

AspectSet == { -Scale, 0, Scale, 2 * Scale, (3 * Scale) \div 2, (3 * Scale) \div 4 }

\* ------------------------------------------------------------ the state
VARIABLES
    objects,    \* HittableList.objects
    pc,         \* "idle", or where the running Camera::ray_color call is
    frames,     \* the activations of the running ray_color call, outermost first
    call,       \* the last operation called, with its arguments and result
    render,     \* the running Camera::render call: its loop variables and buffer
    writer      \* the PpmWriter: its BufWriter and the stream under it

vars == <<objects, pc, frames, call, render, writer>>

\* PpmWriter::new: nothing is buffered and nothing is on the stream. calls
\* counts the write calls and log keeps those that passed validation.
PpmWriter_new == [stream |-> <<>>, buffer |-> <<>>, calls |-> 0, log |-> <<>>]

\* No render call is running.
NoRender == [phase |-> "none"]

Init ==
    /\ objects = <<>>
    /\ pc = "idle"
    /\ frames = <<>>
    /\ call = [op |-> "new"]
    /\ render = NoRender
    /\ writer = PpmWriter_new

\* The scene is at rest and no call is being looked at: the operations
\* below are looked at one at a time.
AtRest == pc = "idle" /\ call.op \in {"new", "add", "clear"}

\* An add that puts the object first.
add_first(object) ==
    /\ pc = "idle"
    /\ Len(objects) < MaxObjects
    /\ objects' = <<object>> \o objects
    /\ call' = [op |-> "add", object |-> object]
    /\ UNCHANGED <<pc, frames, render, writer>>

\* HittableList::add
add(object) ==
    /\ pc = "idle"
    /\ Len(objects) < MaxObjects
    /\ objects' = Append(objects, object)
    /\ call' = [op |-> "add", object |-> object]
    /\ UNCHANGED <<pc, frames, render, writer>>

\* HittableList::clear
clear ==
    /\ pc = "idle"
    /\ objects' = <<>>
    /\ call' = [op |-> "clear"]
    /\ UNCHANGED <<pc, frames, render, writer>>

call_Sphere_hit(s, ray, ray_t) ==
    /\ AtRest
    /\ call' = [op |-> "Sphere_hit", self |-> s, ray |-> ray, ray_t |-> ray_t,
                result |-> Sphere_hit(s, ray, ray_t)]
    /\ UNCHANGED <<objects, pc, frames, render, writer>>

call_HittableList_hit(ray, ray_t) ==
    /\ AtRest
    /\ call' = [op |-> "HittableList_hit", ray |-> ray, ray_t |-> ray_t,
                result |-> HittableList_hit(objects, ray, ray_t)]
    /\ UNCHANGED <<objects, pc, frames, render, writer>>

call_HitRecord_new(p, normal, t, ray, material) ==
    /\ AtRest
    /\ call' = [op |-> "HitRecord_new", p |-> p, normal |-> normal, t |-> t,
                ray |-> ray, material |-> material,
                result |-> HitRecord_new(p, normal, t, ray, material)]
    /\ UNCHANGED <<objects, pc, frames, render, writer>>

call_Camera_new(aspect_ratio, image_width, samples_per_pixel, max_depth) ==
    /\ AtRest
    /\ call' = [op |-> "Camera_new", aspect_ratio |-> aspect_ratio,
                image_width |-> image_width,
                samples_per_pixel |-> samples_per_pixel, max_depth |-> max_depth,
                result |-> Camera_new(aspect_ratio, image_width, samples_per_pixel,
                                      max_depth, 90 * Scale, V(0, 0, 0), V(0, 0, -1),
                                      V(0, 1, 0), 0, Scale)]
    /\ UNCHANGED <<objects, pc, frames, render, writer>>

\* A fresh activation of ray_color.
Frame(ray, depth) ==
    [ray |-> ray, depth |-> depth, outcome |-> "pending", hit_tests |-> 0,
     scatter_calls |-> 0, rec |-> None, sc |-> None, ret |-> None]

\* Camera::ray_color(ray, depth, world) is called on the scene.
rc_call(ray, depth) ==
    /\ pc = "idle"
    /\ pc' = "active"
    /\ frames' = <<Frame(ray, depth)>>
    /\ call' = [op |-> "ray_color", ray |-> ray, depth |-> depth]
    /\ UNCHANGED <<objects, render, writer>>

\* The innermost activation runs: it returns, or calls ray_color again.
rc_step ==
    /\ pc = "active"
    /\ \E random_unit \in RandomUnits, gen_unit \in GenUnits :
         \E n \in {Len(frames)} :
         \E r \in {ray_color(frames[n].ray, frames[n].depth, objects, random_unit, gen_unit)} :
         \E done \in {[frames[n] EXCEPT !.outcome = r.outcome,
                          !.hit_tests = r.hit_tests, !.scatter_calls = r.scatter_calls,
                          !.rec = r.rec, !.sc = r.sc, !.ret = r.ret]} :
            IF IsSome(r.ret)
            THEN /\ frames' = [frames EXCEPT ![n] = done]
                 /\ pc' = IF n = 1 THEN "done" ELSE "returning"
            ELSE \E next \in {ray_color_recurse(done.depth, r.sc)} :
                 /\ frames' = Append([frames EXCEPT ![n] = done],
                                     Frame(next.ray, next.depth))
                 /\ pc' = "active"
    /\ UNCHANGED <<objects, call, render, writer>>

\* The innermost activation that waits for its recursive call gets the
\* value and returns.
rc_return ==
    /\ pc = "returning"
    /\ LET n == Cardinality({i \in 1..Len(frames) : ~IsSome(frames[i].ret)})
           f == frames[n]
           value == ray_color_combine(Unwrap(f.sc).attenuation, Unwrap(frames[n + 1].ret))
       IN  /\ frames' = [frames EXCEPT ![n].ret = Some(value)]
           /\ pc' = IF n = 1 THEN "done" ELSE "returning"
    /\ UNCHANGED <<objects, call, render, writer>>

\* The caller takes the color.
rc_finish ==
    /\ pc = "done"
    /\ pc' = "idle"
    /\ frames' = <<>>
    /\ call' = [op |-> "ray_color", ray |-> frames[1].ray, depth |-> frames[1].depth,
                result |-> Unwrap(frames[1].ret)]
    /\ UNCHANGED <<objects, render, writer>>

Next ==
    \/ \E object \in SphereSet : add(object)
    \/ clear
    \/ \E s \in SphereSet, ray \in RaySet, ray_t \in IntervalSet : call_Sphere_hit(s, ray, ray_t)
    \/ \E ray \in RaySet, ray_t \in IntervalSet : call_HittableList_hit(ray, ray_t)
    \/ \E normal \in NormalSet, ray \in RaySet, material \in {Lam, Die} :
         call_HitRecord_new(at(ray, Scale), normal, Scale, ray, material)
    \/ \E aspect_ratio \in AspectSet, image_width \in 0..MaxU32,
          samples_per_pixel \in 0..MaxU32, max_depth \in 0..MaxU32 :
         call_Camera_new(aspect_ratio, image_width, samples_per_pixel, max_depth)
    \/ \E ray \in RaySet, depth \in 0..MaxDepth : rc_call(ray, depth)
    \/ rc_step
    \/ rc_return
    \/ rc_finish

Spec == Init /\ [][Next]_vars

\* ----------------------------------------- Camera::render and create_ppm
\* A mirror: metal without fuzz.
Mirror == Metallic_new(MetAlbedo, 0)

\* The scenes rendered: the empty one, and a mirror sphere that fills the
\* middle of the picture.
RenderScenes ==
    { <<>>,
      <<Sphere_new(V(0, 0, -3), 2 * Scale, Mirror)>> }

RenderAspects == { Scale, 2 * Scale }

RenderWidths == { 1, 2 }

\* The point Vec3::random_on_unit_disk() returns (unused without defocus).
DiskPoints == { V(0, 0, 0) }

\* The two values gen_unit() returns in pixel_sample_square: the corner and
\* the centre of the pixel's square.
SampleDraws == { <<0, 0>>, <<Scale \div 2, Scale \div 2>> }

RenderInit ==
    /\ objects \in RenderScenes
    /\ pc = "idle"
    /\ frames = <<>>
    /\ call = [op |-> "new"]
    /\ render = NoRender
    /\ writer = PpmWriter_new

\* The number of render calls on the camera.
MaxRenders == 2

\* The loops of render start at pixel (0, 0) with a black pixel_color. runs
\* numbers the render calls on the camera.
render_begin(camera, runs) ==
    [phase |-> IF camera.image_height > 0 /\ camera.image_width > 0
               THEN "sampling" ELSE "done",
     camera |-> camera, runs |-> runs, row |-> 0, col |-> 0, s |-> 0,
     pixel_color |-> Black, data |-> <<>>,
     pending |-> <<>>, taken |-> <<>>, last |-> <<>>, emitted |-> <<>>]

\* Camera::render is called on the camera Camera::new built of the
\* arguments.
render_call(aspect_ratio, image_width, samples_per_pixel, max_depth) ==
    /\ AtRest
    /\ render.phase = "none"
    /\ \E r \in {Camera_new(aspect_ratio, image_width, samples_per_pixel, max_depth,
                             90 * Scale, V(0, 0, 0), V(0, 0, -1), V(0, 1, 0), 0, Scale)} :
          /\ r.ok
          /\ render' = render_begin(r.value, 1)
    /\ call' = [op |-> "render"]
    /\ UNCHANGED <<objects, pc, frames, writer>>

\* Camera::render is called again on the same camera and scene.
render_again ==
    /\ pc = "idle"
    /\ render.phase = "none"
    /\ "camera" \in DOMAIN render
    /\ render.runs < MaxRenders
    /\ render' = render_begin(render.camera, render.runs + 1)
    /\ call' = [op |-> "render"]
    /\ UNCHANGED <<objects, pc, frames, writer>>

\* One turn of the sample loop starts: get_ray(row, col), and ray_color is
\* called with max_depth.
render_sample(gx, gy, p) ==
    /\ render.phase = "sampling"
    /\ pc = "idle"
    /\ render.s < render.camera.samples_per_pixel
    /\ frames' = <<Frame(get_ray(render.camera, render.row, render.col, gx, gy, p),
                         render.camera.max_depth)>>
    /\ pc' = "active"
    /\ render' = [render EXCEPT !.pending = <<gx, gy, p>>]
    /\ UNCHANGED <<objects, call, writer>>

\* ray_color returned: pixel_color += its value.
render_accumulate ==
    /\ render.phase = "sampling"
    /\ pc = "done"
    /\ render' = [render EXCEPT
                    !.pixel_color = CAdd(render.pixel_color, Unwrap(frames[1].ret)),
                    !.s = render.s + 1,
                    !.pending = <<>>,
                    !.taken = Append(render.taken,
                                     [row |-> render.row, col |-> render.col,
                                      draw |-> render.pending,
                                      ray |-> frames[1].ray, depth |-> frames[1].depth,
                                      color |-> Unwrap(frames[1].ret)])]
    /\ pc' = "idle"
    /\ frames' = <<>>
    /\ UNCHANGED <<objects, call, writer>>

\* The sample loop is over: the pixel is pushed, and the loops move to the
\* next pixel or end.  last and emitted remember the samples and the place
\* of the pixel pushed.
render_emit ==
    /\ render.phase = "sampling"
    /\ pc = "idle"
    /\ render.s >= render.camera.samples_per_pixel
    /\ \E next \in {render_next(render.camera, render.row, render.col)} :
         render' = [render EXCEPT
                      !.data = Append(render.data,
                                      render_pixel(render.camera, render.pixel_color)),
                      !.emitted = Append(render.emitted, <<render.row, render.col>>),
                      !.last = render.taken,
                      !.taken = <<>>,
                      !.s = 0,
                      !.pixel_color = Black,
                      !.phase = IF IsSome(next) THEN "sampling" ELSE "done",
                      !.row = IF IsSome(next) THEN Unwrap(next)[1] ELSE render.row,
                      !.col = IF IsSome(next) THEN Unwrap(next)[2] ELSE render.col]
    /\ UNCHANGED <<objects, pc, frames, call, writer>>

\* A render that returns data and takes the objects out of the scene.
render_return_consuming ==
    /\ render.phase = "done"
    /\ call' = [op |-> "render", dim |-> dim(render.camera), result |-> render.data]
    /\ render' = [phase |-> "none", camera |-> render.camera, runs |-> render.runs]
    /\ objects' = <<>>
    /\ UNCHANGED <<pc, frames, writer>>

\* render returns data: its loop variables and buffer are gone, the camera
\* stays.
render_return ==
    /\ render.phase = "done"
    /\ call' = [op |-> "render", dim |-> dim(render.camera), result |-> render.data]
    /\ render' = [phase |-> "none", camera |-> render.camera, runs |-> render.runs]
    /\ UNCHANGED <<objects, pc, frames, writer>>

\* create_ppm(path, data, w, h) with the output of render and dim(): the
\* buffer, the sizes and the bit depth the encoder is given.
create_ppm(data, w, h) ==
    /\ render.phase = "none"
    /\ call' = [op |-> "create_ppm", data |-> data, w |-> w, h |-> h,
                bitdepth |-> 255, bytes |-> create_ppm_data(data)]
    /\ UNCHANGED <<objects, pc, frames, render, writer>>

RenderNext ==
    \/ \E aspect_ratio \in RenderAspects, image_width \in RenderWidths,
          samples_per_pixel \in 1..MaxU32, max_depth \in 1..MaxDepth :
         render_call(aspect_ratio, image_width, samples_per_pixel, max_depth)
    \/ \E g \in SampleDraws, p \in DiskPoints : render_sample(g[1], g[2], p)
    \/ rc_step
    \/ rc_return
    \/ render_accumulate
    \/ render_emit
    \/ render_return
    \/ render_again
    \/ /\ call.op = "render"
       /\ "result" \in DOMAIN call
       /\ create_ppm(call.result, call.dim[1], call.dim[2])

RenderSpec == RenderInit /\ [][RenderNext]_vars

\* ------------------------------------- Interval, Color and the materials
EMPTY == Interval_new(Inf, -Inf)

UNIVERSE == Interval_new(-Inf, Inf)

\* The bounds and the values the Interval operations are called with.
BoundSet == { -Inf, -Scale, 0, Scale, Inf }

ValueSet == BoundSet \cup { Scale \div 2 }

\* Channel values: below 0, 0, 0.1 to 0.6, just below 1, 1 and above.
ChannelSet ==
    { -(Scale \div 2), 0, Scale \div 10, (2 * Scale) \div 10, (3 * Scale) \div 10,
      (4 * Scale) \div 10, (5 * Scale) \div 10, (6 * Scale) \div 10,
      Scale - 1, Scale, (3 * Scale) \div 2 }

call_contains(iv, x) ==
    /\ AtRest
    /\ call' = [op |-> "contains", self |-> iv, x |-> x, result |-> contains(iv, x)]
    /\ UNCHANGED <<objects, pc, frames, render, writer>>

call_surrounds(iv, x) ==
    /\ AtRest
    /\ call' = [op |-> "surrounds", self |-> iv, x |-> x, result |-> surrounds(iv, x)]
    /\ UNCHANGED <<objects, pc, frames, render, writer>>

call_surrounds_or_min(iv, x) ==
    /\ AtRest
    /\ call' = [op |-> "surrounds_or_min", self |-> iv, x |-> x,
                result |-> surrounds_or_min(iv, x)]
    /\ UNCHANGED <<objects, pc, frames, render, writer>>

call_surrounds_or_max(iv, x) ==
    /\ AtRest
    /\ call' = [op |-> "surrounds_or_max", self |-> iv, x |-> x,
                result |-> surrounds_or_max(iv, x)]
    /\ UNCHANGED <<objects, pc, frames, render, writer>>

call_clamp(iv, x) ==
    /\ AtRest
    /\ call' = [op |-> "clamp", self |-> iv, x |-> x, result |-> clamp(iv, x)]
    /\ UNCHANGED <<objects, pc, frames, render, writer>>

\* clamp is called once more, on the value it has just returned.
call_clamp_again ==
    /\ call.op = "clamp"
    /\ call' = [op |-> "clamp_again", self |-> call.self, x |-> call.result,
                result |-> clamp(call.self, call.result)]
    /\ UNCHANGED <<objects, pc, frames, render, writer>>

call_to_rgb24(c) ==
    /\ AtRest
    /\ call' = [op |-> "to_rgb24", self |-> c, result |-> to_rgb24(c)]
    /\ UNCHANGED <<objects, pc, frames, render, writer>>

call_Lambertian_scatter(m, ray, rec, random_unit) ==
    /\ AtRest
    /\ call' = [op |-> "Lambertian_scatter", self |-> m, ray |-> ray, rec |-> rec,
                random_unit |-> random_unit,
                result |-> Lambertian_scatter(m, ray, rec, random_unit)]
    /\ UNCHANGED <<objects, pc, frames, render, writer>>

call_Metallic_scatter(m, ray, rec, random_unit) ==
    /\ AtRest
    /\ call' = [op |-> "Metallic_scatter", self |-> m, ray |-> ray, rec |-> rec,
                random_unit |-> random_unit,
                result |-> Metallic_scatter(m, ray, rec, random_unit)]
    /\ UNCHANGED <<objects, pc, frames, render, writer>>

call_Metallic_new(albedo, fuzz) ==
    /\ AtRest
    /\ call' = [op |-> "Metallic_new", albedo |-> albedo, fuzz |-> fuzz,
                result |-> Metallic_new(albedo, fuzz)]
    /\ UNCHANGED <<objects, pc, frames, render, writer>>

call_Dielectric_scatter(m, ray, rec, gen_unit) ==
    /\ AtRest
    /\ call' = [op |-> "Dielectric_scatter", self |-> m, ray |-> ray, rec |-> rec,
                draws |-> <<gen_unit>>,
                result |-> Dielectric_scatter(m, ray, rec, gen_unit)]
    /\ UNCHANGED <<objects, pc, frames, render, writer>>

\* LambertianRandom::new(albedo, p, is_attenuated), and scatter on the
\* material it made. A division of the albedo by p = 0 is left out of the
\* inputs.
call_LambertianRandom_scatter(albedo, p, is_attenuated, ray, rec, r, random_unit) ==
    /\ AtRest
    /\ is_attenuated => p > 0
    /\ \E m \in {LambertianRandom_new(albedo, p, is_attenuated)} :
         call' = IF m.kind = "panic"
                 THEN [op |-> "LambertianRandom_new", p |-> p, result |-> m]
                 ELSE [op |-> "LambertianRandom_scatter", self |-> m, p |-> p,
                       ray |-> ray, rec |-> rec, r |-> r, random_unit |-> random_unit,
                       result |-> LambertianRandom_scatter(m, ray, rec, r, random_unit)]
    /\ UNCHANGED <<objects, pc, frames, render, writer>>

\* The fuzz arguments: below 0, 0, 0.5, 1 and above 1.
FuzzSet == { -(Scale \div 2), 0, Scale \div 2, Scale, 2 * Scale }

\* The probabilities given to LambertianRandom::new.
ProbabilitySet == { 0, Scale \div 2, Scale, 2 * Scale }

\* The values gen_unit() returns in LambertianRandom::scatter, in [0, 1).
DrawSet == { 0, Scale \div 4, Scale \div 2, Scale - 1 }

\* The hit records the materials are called with: built by HitRecord::new
\* for a ray, which may be another ray than the one that is scattered.
RecordSet ==
    { HitRecord_new(at(ray, Scale), normal, Scale, ray, Lam) :
        ray \in RaySet, normal \in NormalSet }

PureNext ==
    \/ \E min \in BoundSet, max \in BoundSet, x \in ValueSet :
         call_contains(Interval_new(min, max), x)
    \/ \E min \in BoundSet, max \in BoundSet, x \in ValueSet :
         call_surrounds(Interval_new(min, max), x)
    \/ \E min \in BoundSet, max \in BoundSet, x \in ValueSet :
         call_surrounds_or_min(Interval_new(min, max), x)
    \/ \E min \in BoundSet, max \in BoundSet, x \in ValueSet :
         call_surrounds_or_max(Interval_new(min, max), x)
    \/ \E min \in BoundSet, max \in BoundSet, x \in ValueSet :
         call_clamp(Interval_new(min, max), x)
    \/ call_clamp_again
    \/ \E r \in ChannelSet, g \in ChannelSet, b \in ChannelSet :
         call_to_rgb24(Color_new(r, g, b))
    \/ \E ray \in RaySet, rec \in RecordSet, random_unit \in RandomUnits :
         call_Lambertian_scatter(Lam, ray, rec, random_unit)
    \/ \E m \in {Met, Mirror}, ray \in RaySet, rec \in RecordSet, random_unit \in RandomUnits :
         call_Metallic_scatter(m, ray, rec, random_unit)
    \/ \E albedo \in {Lam.albedo, Met.albedo}, fuzz \in FuzzSet : call_Metallic_new(albedo, fuzz)
    \/ \E ray \in RaySet, rec \in RecordSet, gen_unit \in GenUnits :
         call_Dielectric_scatter(Die, ray, rec, gen_unit)
    \/ \E p \in ProbabilitySet, is_attenuated \in BOOLEAN, ray \in RaySet,
          normal \in {V(0, 0, 1), V(0, 1, 0)}, r \in DrawSet, random_unit \in RandomUnits :
         call_LambertianRandom_scatter(Lam.albedo, p, is_attenuated, ray,
             HitRecord_new(at(ray, Scale), normal, Scale, ray, Lam), r, random_unit)

PureSpec == Init /\ [][PureNext]_vars

\* ------------------------------------------------------------ PpmWriter
\* A u32 is kept as its four bytes, least significant first, and a u64 as
\* its eight, so that u32::MAX and the product of two u32 are exact.
ToU32(n) == <<n % 256, (n \div 256) % 256, (n \div 65536) % 256, (n \div 16777216) % 256>>

U32_MAX == <<255, 255, 255, 255>>

\* `as u64` of a u32
AsU64(a) == a \o <<0, 0, 0, 0>>

RECURSIVE LimbLess(_, _, _)
LimbLess(a, b, i) ==
    IF i = 0 THEN FALSE
    ELSE IF a[i] # b[i] THEN a[i] < b[i]
    ELSE LimbLess(a, b, i - 1)

\* a < b on two integers of the same width
Less(a, b) == LimbLess(a, b, Len(a))

\* The sum of a[i] * b[k + 1 - i] over i in 1..n: the byte products that
\* fall on byte k of the product.
RECURSIVE Column(_, _, _, _)
Column(a, b, k, n) ==
    IF n = 0 THEN 0 ELSE a[n] * b[k + 1 - n] + Column(a, b, k, n - 1)

\* Byte k of the product before reduction: its column and the carry from
\* the bytes below.
RECURSIVE Carried(_, _, _)
Carried(a, b, k) ==
    IF k = 0 THEN 0 ELSE Column(a, b, k, k) + (Carried(a, b, k - 1) \div 256)

\* a * b on u64
MulU64(a, b) == [k \in 1..8 |-> Carried(a, b, k) % 256]

\* The product taken on 32 bits, wrapping, and then widened.
pixel_count_wrapping(width, height) ==
    AsU64(SubSeq(MulU64(AsU64(width), AsU64(height)), 1, 4))

\* width.0 as u64 * height.0 as u64
pixel_count(width, height) == MulU64(AsU64(width), AsU64(height))

\* The remainder by 10 of the number made of bytes i.. of a.
RECURSIVE RemTen(_, _)
RemTen(a, i) ==
    IF i > Len(a) THEN 0 ELSE (RemTen(a, i + 1) * 256 + a[i]) % 10

\* a divided by 10
QuotTen(a) == [i \in 1..Len(a) |-> (RemTen(a, i + 1) * 256 + a[i]) \div 10]

\* to_string of a u32, as ASCII bytes
RECURSIVE to_string(_)
to_string(a) ==
    IF Less(a, ToU32(10)) THEN <<48 + a[1]>>
    ELSE to_string(QuotTen(a)) \o <<48 + RemTen(a, 1)>>

PPM_BITDEPTH_MIN == 1

PPM_BITDEPTH_MAX == 65535

PpmBitDepth_new(val) ==
    IF ~Less(val, ToU32(PPM_BITDEPTH_MIN)) /\ ~Less(ToU32(PPM_BITDEPTH_MAX), val)
    THEN Ok(val)
    ELSE Err("bitdepth must fall within the range [1,65535]")

PpmDim_new(val) ==
    IF Less(ToU32(0), val) THEN Ok(val)
    ELSE Err("image dimension must be greater than 0")

\* b"P6"
MAGIC_NUMBER == <<80, 54>>

\* A validation that lets every channel value through.
PpmImage_from_unchecked_channels(data, width, height, bitdepth) ==
    IF ~PpmDim_new(width).ok THEN PpmDim_new(width)
    ELSE IF ~PpmDim_new(height).ok THEN PpmDim_new(height)
    ELSE IF ~PpmBitDepth_new(bitdepth).ok THEN PpmBitDepth_new(bitdepth)
    ELSE IF AsU64(ToU32(Len(data))) # pixel_count(width, height)
    THEN Err("color vector size does not match dimensions")
    ELSE Ok([data |-> data, width |-> width, height |-> height, bitdepth |-> bitdepth])

PpmImage_from(data, width, height, bitdepth) ==
    IF ~PpmDim_new(width).ok THEN PpmDim_new(width)
    ELSE IF ~PpmDim_new(height).ok THEN PpmDim_new(height)
    ELSE IF ~PpmBitDepth_new(bitdepth).ok THEN PpmBitDepth_new(bitdepth)
    ELSE IF AsU64(ToU32(Len(data))) # pixel_count(width, height)
    THEN Err("color vector size does not match dimensions")
    ELSE IF \E i \in 1..Len(data) : \E k \in 1..3 : Less(bitdepth, ToU32(data[i][k]))
    THEN Err("channel value is invalid")
    ELSE Ok([data |-> data, width |-> width, height |-> height, bitdepth |-> bitdepth])

\* The bytes of the colors, in order.
RECURSIVE color_bytes(_)
color_bytes(data) ==
    IF data = <<>> THEN <<>> ELSE Head(data) \o color_bytes(Tail(data))

\* An encoding with the height before the width.
PpmWriter_encode_height_first(image) ==
    MAGIC_NUMBER \o <<10>> \o to_string(image.height) \o <<32>> \o to_string(image.width)
        \o <<32>> \o to_string(image.bitdepth) \o <<10>> \o color_bytes(image.data)

\* The bytes PpmWriter::write hands to its BufWriter, in order.
PpmWriter_encode(image) ==
    MAGIC_NUMBER \o <<10>> \o to_string(image.width) \o <<32>> \o to_string(image.height)
        \o <<32>> \o to_string(image.bitdepth) \o <<10>> \o color_bytes(image.data)

\* The number of write calls looked at.
MaxWrites == 2

\* write on an image that passed validation. The bytes fit the BufWriter,
\* so they reach the stream at the flush, after what an earlier failed
\* flush left in the buffer. The stream takes `accepted` bytes; when it
\* stops short of all of them, or when its own flush fails (~flushed), the
\* call returns the I/O error.
write_image(image, data, width, height, bitdepth) ==
    \E pending \in {writer.buffer \o PpmWriter_encode(image)} :
    \E accepted \in {0, 2, Len(pending)}, flushed \in BOOLEAN :
        /\ accepted < Len(pending) => flushed
        /\ call' = [op |-> "write", data |-> data, width |-> width, height |-> height,
                    bitdepth |-> bitdepth,
                    result |-> IF accepted = Len(pending) /\ flushed
                               THEN Ok(0) ELSE Err("io")]
        /\ writer' = [stream |-> writer.stream \o SubSeq(pending, 1, accepted),
                      buffer |-> SubSeq(pending, accepted + 1, Len(pending)),
                      calls |-> writer.calls + 1,
                      log |-> Append(writer.log, call')]

\* PpmWriter::write
write(data, width, height, bitdepth) ==
    /\ pc = "idle"
    /\ writer.calls < MaxWrites
    /\ \E image \in {PpmImage_from(data, width, height, bitdepth)} :
         IF image.ok
         THEN write_image(image.value, data, width, height, bitdepth)
         ELSE /\ call' = [op |-> "write", data |-> data, width |-> width,
                          height |-> height, bitdepth |-> bitdepth, result |-> image]
              /\ writer' = [writer EXCEPT !.calls = @ + 1]
    /\ UNCHANGED <<objects, pc, frames, render>>

\* The images of the writer's tests, and smaller ones.
DataSet ==
    { <<>>,
      << <<255, 0, 0>> >>,
      << <<0, 1, 0>>, <<1, 1, 1>> >>,
      << <<255, 0, 0>>, <<0, 255, 0>>, <<0, 0, 255>>,
         <<255, 255, 0>>, <<255, 255, 255>>, <<0, 0, 0>> >> }

WidthSet == { ToU32(0), ToU32(1), ToU32(3), ToU32(65536), U32_MAX }

HeightSet == { ToU32(0), ToU32(1), ToU32(2), ToU32(65536), U32_MAX }

BitDepthSet == { ToU32(0), ToU32(1), ToU32(255), ToU32(65536) }

PpmNext ==
    \E data \in DataSet, width \in WidthSet, height \in HeightSet, bitdepth \in BitDepthSet :
        write(data, width, height, bitdepth)

PpmSpec == Init /\ [][PpmNext]_vars

\* ----------------------------------------------------------- the claims
SetMin(S) == CHOOSE x \in S : \A y \in S : x <= y

RECURSIVE SumTo(_, _)
\* f[1] + ... + f[n]
SumTo(f, n) == IF n = 0 THEN 0 ELSE f[n] + SumTo(f, n - 1)

\* The activations of the running call that have run their body.
Ran == {i \in 1..Len(frames) : frames[i].outcome # "pending"}

\* What the scene answers to the ray of activation i.
SceneHit(i) == HittableList_hit(objects, frames[i].ray, INITIAL_T_BOUND)

\* C1: an activation of ray_color with depth = 0 returns exactly black,
\* whatever the ray and the scene, and makes no intersection test and no
\* scatter call (and so no recursive call).
C1_DepthZeroIsBlack ==
    \A i \in Ran :
        frames[i].depth = 0 =>
            /\ frames[i].ret = Some(<<0, 0, 0>>)
            /\ frames[i].hit_tests = 0
            /\ frames[i].scatter_calls = 0
            /\ frames[i].rec = None /\ frames[i].sc = None
            /\ i = Len(frames)

\* C1's case: ray_color ran with depth = 0 on a ray the scene would be hit by.
C1_Witness ==
    \E i \in Ran : frames[i].depth = 0 /\ IsSome(SceneHit(i))

\* The calls the running ray_color call has made so far.
HitTests == SumTo([i \in 1..Len(frames) |-> frames[i].hit_tests], Len(frames))

ScatterCalls == SumTo([i \in 1..Len(frames) |-> frames[i].scatter_calls], Len(frames))

\* The steps the running ray_color call may still take, at most.
Rank ==
    CASE pc = "active" -> 2 * frames[Len(frames)].depth + Len(frames) + 1
      [] pc = "returning" -> Cardinality({i \in 1..Len(frames) : ~IsSome(frames[i].ret)})
      [] OTHER -> 0

\* The bounds of C2, in a state.
C2_Bounds ==
    frames # <<>> =>
        /\ HitTests <= frames[1].depth
        /\ ScatterCalls <= frames[1].depth
        /\ Len(frames) <= frames[1].depth + 1
        /\ \A i \in 1..Len(frames) : frames[i].depth >= 0
        /\ \A i \in 1..(Len(frames) - 1) : frames[i + 1].depth = frames[i].depth - 1
        /\ Rank >= 0 /\ Rank <= 3 * frames[1].depth + 2

\* A step of a running call lowers Rank.
RankFalls == (pc \in {"active", "returning"}) => (Rank' < Rank)

\* C2: a call ray_color(ray, depth, world) makes at most depth intersection
\* tests and at most depth scatter calls, whatever the scatter outcomes; each
\* recursive call has the depth of its caller less 1, and no depth is below 0;
\* the call terminates, since every step of a running call lowers Rank.
C2_DepthBoundsTheCalls ==
    /\ []C2_Bounds
    /\ [][RankFalls]_vars

\* C2's case: a call that used its whole budget, every activation scattering.
C2_Witness ==
    /\ pc = "done"
    /\ frames[1].depth = MaxDepth
    /\ Len(frames) = MaxDepth + 1
    /\ HitTests = MaxDepth /\ ScatterCalls = MaxDepth

\* The sky of the spec: (1-a)*white + a*(0.5,0.7,1.0), a = 0.5*(unit_direction.y + 1).
Sky(ray) ==
    LET a == FMul(Scale \div 2, unit(ray.direction)[2] + Scale)
    IN  <<FMul(Scale - a, Scale) + FMul(a, Scale \div 2),
          FMul(Scale - a, Scale) + FMul(a, (7 * Scale) \div 10),
          FMul(Scale - a, Scale) + FMul(a, Scale)>>

\* The members of the scene whose own hit, within INITIAL_T_BOUND, is at t
\* and carries the material m.
HitMembers(ray, t, m) ==
    {k \in 1..Len(objects) :
        /\ IsSome(Sphere_hit(objects[k], ray, INITIAL_T_BOUND))
        /\ Unwrap(Sphere_hit(objects[k], ray, INITIAL_T_BOUND)).t = t
        /\ objects[k].material = m}

\* What C3 says of activation i, whose depth is above 0 and whose body ran.
C3_Of(i, f, h) ==
    /\ f.rec = h
    /\ ~IsSome(h) => f.sc = None /\ f.ret = Some(Sky(f.ray))
    /\ IsSome(h) =>
         /\ HitMembers(f.ray, Unwrap(h).t, Unwrap(h).material) # {}
         /\ \E random_unit \in RandomUnits, gen_unit \in GenUnits :
               f.sc = scatter(Unwrap(h).material, f.ray, Unwrap(h), random_unit, gen_unit)
         /\ ~IsSome(f.sc) => f.ret = Some(<<0, 0, 0>>)
         /\ IsSome(f.sc) =>
              /\ i < Len(frames)
              /\ frames[i + 1].ray = Unwrap(f.sc).ray
              /\ frames[i + 1].depth = f.depth - 1
              /\ IsSome(f.ret) =>
                   /\ IsSome(frames[i + 1].ret)
                   /\ \A c \in 1..3 :
                         Unwrap(f.ret)[c] =
                            FMul(Unwrap(f.sc).attenuation[c], Unwrap(frames[i + 1].ret)[c])

\* C3: for depth > 0 ray_color returns attenuation * ray_color(scattered,
\* depth-1), component-wise, when the scene is hit and the hit material
\* scatters; black when the scene is hit and the material returns none; the
\* sky gradient when nothing is hit.  The material consulted is the material
\* of the object whose hit the scene returned.
C3_RayColorCases ==
    \A i \in Ran :
        frames[i].depth > 0 => C3_Of(i, frames[i], SceneHit(i))

\* C3's case: a finished call whose first activation scattered and returned
\* the attenuated color of the sky its scattered ray reached.
C3_Witness ==
    /\ pc = "done"
    /\ Len(frames) = 2
    /\ frames[1].outcome = "scattered"
    /\ frames[2].outcome = "miss"
    /\ Len(objects) = 2
    /\ objects[1].material # objects[2].material
    /\ Unwrap(frames[1].ret) # <<0, 0, 0>>
    /\ Unwrap(frames[1].ret) # Unwrap(frames[2].ret)

\* C3's other case: the scene is hit and the material returns none while
\* depth remains.
C3_WitnessAbsorbed ==
    /\ pc = "done"
    /\ \E i \in Ran : frames[i].outcome = "absorbed" /\ frames[i].depth > 1

\* The t of the members' own hits within ray_t, over the first n members.
MemberTs(n, ray, ray_t) ==
    {Unwrap(Sphere_hit(objects[k], ray, ray_t)).t :
        k \in {j \in 1..n : IsSome(Sphere_hit(objects[j], ray, ray_t))}}

\* The upper bound member k was tested with: where the fold stands after
\* the members before it.
TestedMax(k, ray, ray_t) ==
    HitFold(SubSeq(objects, 1, k - 1), <<None, ray_t.max>>, ray, ray_t)[2]

\* C4: HittableList::hit returns none iff no member reports a hit within
\* ray_t, and otherwise a hit whose t is the minimum over the members' hits
\* within ray_t; member k is tested with the lower bound of ray_t and an
\* upper bound equal to the smallest t accepted so far (ray_t.max at first).
C4_ClosestHit ==
    call.op = "HittableList_hit" =>
        LET ts == MemberTs(Len(objects), call.ray, call.ray_t)
        IN  /\ ~IsSome(call.result) <=> ts = {}
            /\ IsSome(call.result) => Unwrap(call.result).t = SetMin(ts)
            /\ \A k \in 1..Len(objects) :
                  TestedMax(k, call.ray, call.ray_t) =
                     SetMin(MemberTs(k - 1, call.ray, call.ray_t) \cup {call.ray_t.max})

\* C4's case: the first member is hit, the second is hit nearer, and the
\* nearer one is returned.
C4_Witness ==
    /\ call.op = "HittableList_hit"
    /\ Len(objects) = 2
    /\ Cardinality(MemberTs(2, call.ray, call.ray_t)) = 2
    /\ IsSome(Sphere_hit(objects[1], call.ray, call.ray_t))
    /\ Unwrap(Sphere_hit(objects[1], call.ray, call.ray_t)).t
          > Unwrap(call.result).t

\* The orders the members of the list may have been added in.
Orders(seq) ==
    {[i \in 1..Len(seq) |-> seq[f[i]]] :
        f \in {g \in [1..Len(seq) -> 1..Len(seq)] :
                  \A i, j \in 1..Len(seq) : g[i] = g[j] => i = j}}

\* The members whose own hit within ray_t is at t.
MembersAt(t, ray, ray_t) ==
    {k \in 1..Len(objects) :
        /\ IsSome(Sphere_hit(objects[k], ray, ray_t))
        /\ Unwrap(Sphere_hit(objects[k], ray, ray_t)).t = t}

\* C5 as the spec states it: the hit record is the same for every order of
\* the same objects.
C5_OrderIndependent ==
    call.op = "HittableList_hit" =>
        \A perm \in Orders(objects) :
            HittableList_hit(perm, call.ray, call.ray_t) = call.result

\* C5, amended: for every order of the same objects, hit returns none or a
\* hit alike, with the same t and the same point p; the normal, the
\* orientation and the material are the same too unless two members are hit
\* at that same smallest t (the first of them in the list is then reported).
C5_OrderIndependentUpToTies ==
    call.op = "HittableList_hit" =>
        \A perm \in Orders(objects) :
            LET h == HittableList_hit(perm, call.ray, call.ray_t)
            IN  /\ IsSome(h) <=> IsSome(call.result)
                /\ IsSome(h) =>
                     /\ Unwrap(h).t = Unwrap(call.result).t
                     /\ Unwrap(h).p = Unwrap(call.result).p
                     /\ Cardinality(MembersAt(Unwrap(h).t, call.ray, call.ray_t)) = 1
                           => h = call.result

\* C5's case: two different members are both hit, at different t, and the
\* other order gives the same record.
C5_Witness ==
    /\ call.op = "HittableList_hit"
    /\ Len(objects) = 2
    /\ objects[1] # objects[2]
    /\ Cardinality(MemberTs(2, call.ray, call.ray_t)) = 2
    /\ HittableList_hit(<<objects[2], objects[1]>>, call.ray, call.ray_t) = call.result

\* C6: every hit record Sphere::hit or HittableList::hit returns for an
\* interval ray_t has ray_t.min < t < ray_t.max, both bounds excluded; the
\* records ray_color gets, from the interval (0.001, +infinity), have
\* t > 0.001.
C6_StrictlyWithin ==
    /\ (call.op \in {"Sphere_hit", "HittableList_hit"} /\ IsSome(call.result)) =>
          /\ call.ray_t.min < Unwrap(call.result).t
          /\ Unwrap(call.result).t < call.ray_t.max
    /\ \A i \in 1..Len(frames) :
          IsSome(frames[i].rec) => 1000 * Unwrap(frames[i].rec).t > Scale

\* C6's case: the nearer root of the sphere is exactly the lower bound of
\* the interval, is left out, and the farther root is returned.
C6_Witness ==
    /\ call.op = "Sphere_hit"
    /\ IsSome(call.result)
    /\ \E t \in 1..(4 * Scale) :
          /\ t = call.ray_t.min
          /\ VSub(at(call.ray, t), call.self.center) = <<0, 0, call.self.radius>>
          /\ Unwrap(call.result).t > t

\* The discriminant, and the two roots of the spec, of a sphere and a ray.
Quad(s, ray) ==
    LET oc == VSub(ray.origin, s.center)
        a == dot(ray.direction, ray.direction)
        half_b == dot(oc, ray.direction)
        c == dot(oc, oc) - FMul(s.radius, s.radius)
        disc == FMul(half_b, half_b) - FMul(a, c)
    IN  [disc |-> disc,
         small |-> IF disc < 0 THEN 0 ELSE FDiv(-half_b - FSqrt(disc), a),
         large |-> IF disc < 0 THEN 0 ELSE FDiv(-half_b + FSqrt(disc), a)]

Within(iv, x) == iv.min < x /\ x < iv.max

\* What C7 says of a call of Sphere::hit with the quantities q.
C7_Of(q, ray_t, result) ==
    /\ q.disc < 0 => result = None
    /\ (q.disc >= 0 /\ Within(ray_t, q.small)) =>
          IsSome(result) /\ Unwrap(result).t = q.small
    /\ (q.disc >= 0 /\ ~Within(ray_t, q.small) /\ Within(ray_t, q.large)) =>
          IsSome(result) /\ Unwrap(result).t = q.large
    /\ (q.disc >= 0 /\ ~Within(ray_t, q.small) /\ ~Within(ray_t, q.large)) =>
          result = None

\* C7: Sphere::hit returns no hit when the discriminant is negative;
\* otherwise the smaller root if it lies within the interval, else the
\* larger root if that does, else no hit.  The larger root is never returned
\* when the smaller one is within the interval.
C7_SmallerRootFirst ==
    call.op = "Sphere_hit" => C7_Of(Quad(call.self, call.ray), call.ray_t, call.result)

\* C7's case: two distinct roots, both within the interval; the smaller is
\* returned.
C7_Witness ==
    /\ call.op = "Sphere_hit"
    /\ Quad(call.self, call.ray).disc > 0
    /\ Within(call.ray_t, Quad(call.self, call.ray).small)
    /\ Within(call.ray_t, Quad(call.self, call.ray).large)
    /\ Unwrap(call.result).t = Quad(call.self, call.ray).small
    /\ Quad(call.self, call.ray).small < Quad(call.self, call.ray).large

\* The records the running ray_color call got from the scene, each with
\* the ray it was built for.
FrameRecords ==
    {<<frames[i].ray, Unwrap(frames[i].rec)>> :
        i \in {j \in 1..Len(frames) : IsSome(frames[j].rec)}}

Rejected(c) ==
    c.aspect_ratio <= 0 \/ c.image_width = 0 \/ c.samples_per_pixel = 0 \/ c.max_depth = 0

\* C9: Camera::new returns an error, and no camera, iff aspect_ratio <= 0
\* or image_width = 0 or samples_per_pixel = 0 or max_depth = 0; otherwise a
\* camera whose stored parameters equal the arguments.
C9_CameraValidation ==
    call.op = "Camera_new" =>
        /\ ~call.result.ok <=> Rejected(call)
        /\ ~call.result.ok => DOMAIN call.result = {"ok", "error"}
        /\ call.result.ok =>
             /\ DOMAIN call.result = {"ok", "value"}
             /\ call.result.value.aspect_ratio = call.aspect_ratio
             /\ call.result.value.image_width = call.image_width
             /\ call.result.value.samples_per_pixel = call.samples_per_pixel
             /\ call.result.value.max_depth = call.max_depth

\* C9's case: only max_depth is 0, and the call is an error.
C9_Witness ==
    /\ call.op = "Camera_new"
    /\ call.aspect_ratio > 0 /\ call.image_width > 0 /\ call.samples_per_pixel > 0
    /\ call.max_depth = 0
    /\ ~call.result.ok

\* C10: every error of Camera::new names the parameter that was rejected
\* and reports the value given for that same parameter.
C10_ErrorReportsItsParameter ==
    (call.op = "Camera_new" /\ ~call.result.ok) =>
        LET e == call.result.error
        IN  /\ e.param \in {"aspect_ratio", "image_width", "samples_per_pixel", "max_depth"}
            /\ e.param = "aspect_ratio" => call.aspect_ratio <= 0 /\ e.given = call.aspect_ratio
            /\ e.param = "image_width" => call.image_width = 0 /\ e.given = call.image_width
            /\ e.param = "samples_per_pixel" =>
                  call.samples_per_pixel = 0 /\ e.given = call.samples_per_pixel
            /\ e.param = "max_depth" => call.max_depth = 0 /\ e.given = call.max_depth

\* C11: for every accepted image_width and aspect_ratio the camera's
\* image_height is max(1, round(image_width / aspect_ratio)), rounding to
\* the nearest integer; in particular image_height >= 1.
C11_ImageHeightRounds ==
    (call.op = "Camera_new" /\ call.result.ok) =>
        /\ call.result.value.image_height >= 1
        /\ call.result.value.image_height =
              FMax(1, RoundDiv(call.image_width * Scale, call.aspect_ratio))

\* C12: Camera::render returns exactly image_width * image_height colors,
\* one per pixel in row-major order: the color of pixel (row, col) is at
\* index row * image_width + col (counting from 0), where (image_width,
\* image_height) is what Camera::dim returns.
C12_RenderRowMajor ==
    /\ render.phase # "none" =>
          LET W == dim(render.camera)[1]
              H == dim(render.camera)[2]
          IN  /\ Len(render.emitted) = Len(render.data)
              /\ \A i \in 1..Len(render.data) :
                    /\ render.emitted[i] = <<(i - 1) \div W, (i - 1) % W>>
                    /\ render.emitted[i][1] < H
              /\ render.phase = "done" => Len(render.data) = W * H
    /\ (call.op = "render" /\ "result" \in DOMAIN call) =>
          Len(call.result) = call.dim[1] * call.dim[2]

\* C12's case: render is through with a picture of two rows and two columns.
C12_Witness ==
    /\ render.phase = "done"
    /\ dim(render.camera) = <<2, 2>>
    /\ render.emitted = << <<0, 0>>, <<0, 1>>, <<1, 0>>, <<1, 1>> >>

RECURSIVE ColorSum(_)
\* The colors of the samples, added up from black in the order taken.
ColorSum(samples) ==
    IF samples = <<>> THEN Black
    ELSE CAdd(ColorSum(SubSeq(samples, 1, Len(samples) - 1)),
              samples[Len(samples)].color)

\* A sample of the pixel (row, col): a ray_color result that was started
\* with max_depth on a ray get_ray made for (row, col).
SampleOf(camera, row, col, sample) ==
    /\ sample.row = row
    /\ sample.col = col
    /\ sample.depth = camera.max_depth
    /\ sample.ray = get_ray(camera, row, col, sample.draw[1], sample.draw[2], sample.draw[3])

\* C13: each pixel render emits is the sum of exactly samples_per_pixel
\* ray_color results, each started with depth max_depth on a ray generated
\* for that pixel's (row, col), divided by samples_per_pixel; the samples of
\* a pixel are all taken before it is emitted and before any sample of the
\* next pixel.
C13_PixelIsMeanOfItsSamples ==
    render.phase # "none" =>
        LET camera == render.camera
            n == Len(render.data)
        IN  /\ n > 0 =>
                 /\ Len(render.last) = camera.samples_per_pixel
                 /\ \A j \in 1..Len(render.last) :
                       SampleOf(camera, render.emitted[n][1], render.emitted[n][2],
                                render.last[j])
                 /\ render.data[n] =
                       CDiv(ColorSum(render.last), AsF64(camera.samples_per_pixel))
            /\ render.phase = "sampling" =>
                 /\ n = render.row * camera.image_width + render.col
                 /\ Len(render.taken) = render.s
                 /\ render.s <= camera.samples_per_pixel
                 /\ render.pixel_color = ColorSum(render.taken)
                 /\ \A j \in 1..Len(render.taken) :
                       SampleOf(camera, render.row, render.col, render.taken[j])
            /\ render.phase = "done" => render.taken = <<>>

\* C13's case: the second pixel has been emitted as the mean of two samples
\* of different colors.
C13_Witness ==
    /\ render.phase # "none"
    /\ Len(render.data) = 2
    /\ Len(render.last) = 2
    /\ render.last[1].color # render.last[2].color
    /\ render.data[2] # ColorSum(render.last)

\* C14: create_ppm, given render's output and dim(), hands the encoder a
\* buffer of exactly width * height * 3 bytes, the R, G, B bytes of each
\* pixel interleaved in pixel order, each byte the channel gamma-corrected
\* (square root, 0 for a channel <= 0), then clamped to [0, 1-eps], scaled by
\* 255 and floored; each byte is <= 255.
C14_EncoderBuffer ==
    call.op = "create_ppm" =>
        /\ Len(call.bytes) = call.w * call.h * 3
        /\ \A i \in 1..Len(call.data) : \A k \in 1..3 :
              LET channel == call.data[i][k]
                  gamma == IF channel > 0 THEN FSqrt(channel) ELSE 0
                  clamped == FMax(0, FMin(gamma, Scale - 1))
              IN  call.bytes[3 * (i - 1) + k] = (255 * clamped) \div Scale
        /\ \A b \in 1..Len(call.bytes) : call.bytes[b] \in 0..call.bitdepth
        /\ call.bitdepth = 255

\* C14's case: a picture of 2 by 2 pixels whose gamma correction shows in
\* the bytes.
C14_Witness ==
    /\ call.op = "create_ppm"
    /\ call.w = 2 /\ call.h = 2
    /\ Len(call.bytes) = 12
    /\ \E i \in 1..Len(call.data) : call.bytes[3 * (i - 1) + 1] # make_byte(call.data[i][1])

\* C15 as claimed: for every Interval, one constructed with min > max
\* included, contains(min) and contains(max) are both true.
C15_ContainsItsBounds ==
    (call.op = "contains" /\ call.x \in {call.self.min, call.self.max}) =>
        call.result = TRUE

\* C15, amended: for every Interval with min <= max, contains(min) and
\* contains(max) are both true; for an Interval constructed with min > max
\* both are false.
C15_ContainsItsBoundsUnlessEmpty ==
    (call.op = "contains" /\ call.x \in {call.self.min, call.self.max}) =>
        call.result = (call.self.min <= call.self.max)

\* C15's case: contains(max) is true of an interval with min < max.
C15_Witness ==
    /\ call.op = "contains"
    /\ call.self.min < call.self.max
    /\ call.x = call.self.max
    /\ call.result = TRUE

\* C16: for every x, contains is [min, max], surrounds is (min, max),
\* surrounds_or_min is [min, max) and surrounds_or_max is (min, max]; an
\* interval with min > max, such as Interval::EMPTY, contains no value, its
\* own bounds included.
C16_MembershipRanges ==
    LET lo == call.self.min
        hi == call.self.max
        x == call.x
    IN  /\ call.op = "contains" => (call.result <=> (x >= lo /\ hi >= x))
        /\ call.op = "surrounds" => (call.result <=> (x > lo /\ hi > x))
        /\ call.op = "surrounds" => ~(call.result /\ x \in {lo, hi})
        /\ call.op = "surrounds_or_min" => (call.result <=> (x >= lo /\ hi > x))
        /\ call.op = "surrounds_or_max" => (call.result <=> (x > lo /\ hi >= x))
        /\ (call.op \in {"contains", "surrounds", "surrounds_or_min", "surrounds_or_max"}
              /\ lo > hi) => call.result = FALSE

\* C16's case: surrounds_or_max of the upper bound of an interval with
\* min < max is true.
C16_Witness ==
    /\ call.op = "surrounds_or_max"
    /\ call.self.min < call.self.max
    /\ call.x = call.self.max
    /\ call.result = TRUE

\* C16's other case: Interval::EMPTY does not contain its own bound.
C16_WitnessEmpty ==
    /\ call.op = "contains"
    /\ call.self = EMPTY
    /\ call.x = call.self.min
    /\ call.result = FALSE

\* C17: Interval::clamp is idempotent for every Interval and every x:
\* clamp(clamp(x)) = clamp(x).
C17_ClampIdempotent ==
    call.op = "clamp_again" => call.result = call.x

\* C18: Color::to_rgb24 quantizes each channel independently as
\* floor(255 * clamp(channel, 0, 1-eps)): channels below 0 give byte 0, the
\* byte is monotone non-decreasing in the channel, Color(0.1, 0.2, 0.3) gives
\* (25, 51, 76) and Color(0.4, 0.5, 0.6) gives (102, 127, 153).
C18_ToRgb24 ==
    call.op = "to_rgb24" =>
        /\ \A k \in 1..3 :
              /\ call.result[k] =
                    (255 * FMax(0, FMin(call.self[k], Scale - 1))) \div Scale
              /\ call.self[k] < 0 => call.result[k] = 0
              /\ call.result[k] \in 0..255
        /\ \A j \in 1..3, k \in 1..3 :
              call.self[j] <= call.self[k] => call.result[j] <= call.result[k]
        /\ call.self = <<Scale \div 10, (2 * Scale) \div 10, (3 * Scale) \div 10>> =>
              call.result = <<25, 51, 76>>
        /\ call.self = <<(4 * Scale) \div 10, (5 * Scale) \div 10, (6 * Scale) \div 10>> =>
              call.result = <<102, 127, 153>>

\* C18's case: Color(0.1, 0.2, 0.3) gives (25, 51, 76).
C18_Witness ==
    /\ call.op = "to_rgb24"
    /\ call.self = <<Scale \div 10, (2 * Scale) \div 10, (3 * Scale) \div 10>>
    /\ call.result = <<25, 51, 76>>

\* C19: Lambertian::scatter never returns none: it returns a ray that
\* starts at the hit point, whose direction is normal + random unit vector
\* unless every component of that sum is below the tolerance in magnitude,
\* and then the direction is exactly the hit normal.
C19_LambertianAlwaysScatters ==
    call.op = "Lambertian_scatter" =>
        LET sum == VAdd(call.rec.normal, call.random_unit)
            tiny == \A i \in 1..3 : -1 < sum[i] /\ sum[i] < 1
        IN  /\ IsSome(call.result)
            /\ Unwrap(call.result).ray.origin = call.rec.p
            /\ Unwrap(call.result).attenuation = call.self.albedo
            /\ ~tiny => Unwrap(call.result).ray.direction = sum
            /\ tiny => Unwrap(call.result).ray.direction = call.rec.normal

\* C19's case: the random unit vector cancels the normal, and the ray
\* leaves along the normal.
C19_Witness ==
    /\ call.op = "Lambertian_scatter"
    /\ VAdd(call.rec.normal, call.random_unit) = <<0, 0, 0>>
    /\ Unwrap(call.result).ray.direction = call.rec.normal
    /\ call.rec.normal # <<0, 0, 0>>

\* The direction Metallic::scatter considers: the unit mirror reflection
\* plus fuzz times the random unit vector.
Fuzzed(m, ray, rec, random_unit) ==
    LET v == ray.direction
        n == rec.normal
        mirrored == VSub(v, VScale(2 * dot(v, n), n))
    IN  VAdd(VDiv(mirrored, len(mirrored)), VScale(m.fuzz, random_unit))

\* C20: Metallic::scatter returns an outgoing ray iff the fuzzed reflected
\* direction has a strictly positive dot product with the hit normal; when
\* that dot product is <= 0 (as with fuzz = 0 and a reflection that points
\* into the surface) it returns none.
C20_MetallicAbsorbs ==
    call.op = "Metallic_scatter" =>
        LET d == Fuzzed(call.self, call.ray, call.rec, call.random_unit)
        IN  /\ IsSome(call.result) <=> dot(d, call.rec.normal) > 0
            /\ dot(d, call.rec.normal) <= 0 => call.result = None
            /\ IsSome(call.result) =>
                  /\ Unwrap(call.result).ray = Ray_new(call.rec.p, d)
                  /\ Unwrap(call.result).attenuation = call.self.albedo

\* C20's case: no fuzz, a ray that grazes the surface (dot product exactly
\* 0), and no ray comes out.
C20_Witness ==
    /\ call.op = "Metallic_scatter"
    /\ call.self.fuzz = 0
    /\ dot(Fuzzed(call.self, call.ray, call.rec, call.random_unit), call.rec.normal) = 0
    /\ call.result = None

\* C20's other case: no fuzz, a reflection that points into the surface,
\* and no ray comes out.
C20_WitnessInward ==
    /\ call.op = "Metallic_scatter"
    /\ call.self.fuzz = 0
    /\ dot(Fuzzed(call.self, call.ray, call.rec, call.random_unit), call.rec.normal) < 0
    /\ call.result = None

\* C21: for any fuzz argument given to Metallic::new, the stored fuzz
\* satisfies 0 <= fuzz <= 1.
C21_FuzzInUnitRange ==
    call.op = "Metallic_new" =>
        (0 <= call.result.fuzz /\ call.result.fuzz <= Scale)

\* C22: Dielectric::scatter never returns none and its attenuation is
\* exactly white (1, 1, 1), for every ray, hit record and random draw.
C22_DielectricAlwaysWhite ==
    call.op = "Dielectric_scatter" =>
        /\ IsSome(call.result)
        /\ Unwrap(call.result).attenuation = <<Scale, Scale, Scale>>
        /\ Unwrap(call.result).ray.origin = call.rec.p

\* The angle quantities of a Dielectric::scatter call with the ratio given.
Angle(ray, rec, ratio) ==
    LET u == unit(ray.direction)
        cos_theta == FMin(dot(Neg(u), rec.normal), Scale)
        sin_theta == FSqrt(Scale - FMul(cos_theta, cos_theta))
    IN  [u |-> u, total |-> FMul(ratio, sin_theta) > Scale,
         schlick |-> reflectance_schlick(cos_theta, ratio)]

\* C22's case: total internal reflection, and a ray comes out.
C22_Witness ==
    /\ call.op = "Dielectric_scatter"
    /\ call.rec.orientation = "Interior"
    /\ Angle(call.ray, call.rec, call.self.refractive_index).total
    /\ IsSome(call.result)

\* What C23 says of a call with the ratio and the angle quantities q.
C23_Of(ratio, q, draw, normal, direction) ==
    /\ q.total => direction = reflect(q.u, normal)
    /\ (~q.total /\ q.schlick > draw) => direction = reflect(q.u, normal)
    /\ (~q.total /\ ~(q.schlick > draw)) => direction = refract(q.u, normal, ratio)

\* C23: Dielectric::scatter uses ratio = 1/refractive_index when the hit is
\* Exterior and ratio = refractive_index when it is Interior; when
\* ratio * sin_theta > 1 it reflects whatever the draw is; otherwise it
\* decides from exactly one uniform draw, reflecting iff the Schlick
\* reflectance is greater than the draw and refracting otherwise.
C23_DielectricChoice ==
    call.op = "Dielectric_scatter" =>
        LET ratio == IF call.rec.orientation = "Exterior"
                     THEN FDiv(Scale, call.self.refractive_index)
                     ELSE call.self.refractive_index
        IN  /\ Len(call.draws) = 1
            /\ C23_Of(ratio, Angle(call.ray, call.rec, ratio), call.draws[1],
                      call.rec.normal, Unwrap(call.result).ray.direction)

\* C23's case: total internal reflection from inside the glass, with a
\* draw above the Schlick reflectance: the ray is reflected all the same.
C23_Witness ==
    /\ call.op = "Dielectric_scatter"
    /\ call.rec.orientation = "Interior"
    /\ Angle(call.ray, call.rec, call.self.refractive_index).total
    /\ Angle(call.ray, call.rec, call.self.refractive_index).schlick <= call.draws[1]
    /\ Unwrap(call.result).ray.direction =
          reflect(unit(call.ray.direction), call.rec.normal)
    /\ Unwrap(call.result).ray.direction #
          refract(unit(call.ray.direction), call.rec.normal, call.self.refractive_index)

\* C23's other case: an Exterior hit that refracts with ratio 1/index.
C23_WitnessRefracts ==
    /\ call.op = "Dielectric_scatter"
    /\ call.rec.orientation = "Exterior"
    /\ Unwrap(call.result).ray.direction =
          refract(unit(call.ray.direction), call.rec.normal,
                  FDiv(Scale, call.self.refractive_index))
    /\ Unwrap(call.result).ray.direction #
          reflect(unit(call.ray.direction), call.rec.normal)

\* The albedo the material of activation i's hit was constructed with.
ConstructedAlbedo(i) ==
    IF Unwrap(frames[i].rec).material.kind = "Lambertian" THEN LamAlbedo ELSE MetAlbedo

\* Activation i scattered on a Lambertian or a Metal.
Opaque(i) ==
    /\ IsSome(frames[i].sc)
    /\ Unwrap(frames[i].rec).material.kind \in {"Lambertian", "Metallic"}

\* Activations 1..i that scattered all hit a Lambertian or a Metal.
OpaquePath(i) == \A j \in 1..i : IsSome(frames[j].sc) => Opaque(j)

\* The product of the attenuations returned to activations 1..i.
RECURSIVE AttenuationProduct(_)
AttenuationProduct(i) ==
    IF i = 0 THEN White
    ELSE IF IsSome(frames[i].sc)
    THEN CMul(AttenuationProduct(i - 1), Unwrap(frames[i].sc).attenuation)
    ELSE AttenuationProduct(i - 1)

\* The product of the albedos of the materials activations 1..i scattered on.
RECURSIVE AlbedoProduct(_)
AlbedoProduct(i) ==
    IF i = 0 THEN White
    ELSE IF IsSome(frames[i].sc)
    THEN CMul(AlbedoProduct(i - 1), ConstructedAlbedo(i))
    ELSE AlbedoProduct(i - 1)

\* C24: for Lambertian and Metal materials no channel of the attenuation
\* scatter returns exceeds the same channel of the albedo the material was
\* constructed with, so along any path the product of the attenuations
\* never exceeds the product of the albedos of the materials hit.
C24_AttenuationWithinAlbedo ==
    \A i \in 1..Len(frames) : \A k \in 1..3 :
        /\ Opaque(i) => Unwrap(frames[i].sc).attenuation[k] <= ConstructedAlbedo(i)[k]
        /\ OpaquePath(i) => AttenuationProduct(i)[k] <= AlbedoProduct(i)[k]

\* C24's case: a path that scattered on a Lambertian and then on a Metal.
C24_Witness ==
    /\ Len(frames) >= 2
    /\ Opaque(1) /\ Opaque(2)
    /\ Unwrap(frames[1].rec).material.kind = "Lambertian"
    /\ Unwrap(frames[2].rec).material.kind = "Metallic"
    /\ AttenuationProduct(2) = CMul(LamAlbedo, MetAlbedo)

\* C25: a LambertianRandom made with probability p scatters with probability
\* p: scatter returns a ray exactly when the uniform draw falls in the
\* fraction p of [0, 1), so with p = 1 every call scatters and with p = 0
\* none does.
C25_ScattersWithProbabilityP ==
    call.op = "LambertianRandom_scatter" =>
        /\ IsSome(call.result) <=> call.r < call.p
        /\ call.p = Scale => IsSome(call.result)
        /\ call.p = 0 => ~IsSome(call.result)

\* The value of a u32 below 2^16.
Value(a) == a[1] + 256 * a[2]

\* n is width * height, for an n below 256: a factor of 256 or more makes
\* the product 0 or at least 256.
IsProduct(n, width, height) ==
    IF width = ToU32(0) \/ height = ToU32(0) THEN n = 0
    ELSE /\ Less(width, ToU32(256)) /\ Less(height, ToU32(256))
         /\ Value(width) * Value(height) = n

\* One of the five faults of the arguments of a write call.
Invalid(c) ==
    \/ c.width = ToU32(0)
    \/ c.height = ToU32(0)
    \/ Less(c.bitdepth, ToU32(1))
    \/ Less(ToU32(65535), c.bitdepth)
    \/ ~IsProduct(Len(c.data), c.width, c.height)
    \/ \E i \in 1..Len(c.data) : \E k \in 1..3 : Less(c.bitdepth, ToU32(c.data[i][k]))

\* C26 as stated: PpmWriter::write returns an error whenever width = 0,
\* height = 0, bitdepth is outside 1..=65535, the pixel count differs from
\* width * height or some channel is greater than bitdepth; and a failed
\* write puts no byte on the underlying stream.
C26_FailedWriteWritesNothing ==
    [][/\ Invalid(call') => ~call'.result.ok
       /\ ~call'.result.ok => writer'.stream = writer.stream]_vars

\* C26, amended: PpmWriter::write returns an error whenever width = 0,
\* height = 0, bitdepth is outside 1..=65535, the pixel count differs from
\* width * height or some channel is greater than bitdepth; and a write that
\* fails for one of these reasons puts no byte on the underlying stream, nor
\* in the writer's buffer.
C26_RejectedWriteWritesNothing ==
    [][Invalid(call') =>
          /\ ~call'.result.ok
          /\ call'.result.error # "io"
          /\ writer'.stream = writer.stream
          /\ writer'.buffer = writer.buffer]_vars

\* C26's case: a write with a channel above the bitdepth, after a write
\* that put bytes on the stream.
C26_Witness ==
    /\ call.op = "write"
    /\ call.result = Err("channel value is invalid")
    /\ writer.stream # <<>>

\* C27: the pixel count is compared with width * height taken without
\* 32-bit wraparound: for all u32 width and height, u32::MAX included, the
\* data passes the size check only if its length is the true product.
C27_NoWraparound ==
    call.op = "write" =>
        /\ (call.result.ok \/ call.result.error \in {"io", "channel value is invalid"})
              => IsProduct(Len(call.data), call.width, call.height)
        /\ (call.width # ToU32(0) /\ call.height # ToU32(0)
            /\ ~Less(call.bitdepth, ToU32(1)) /\ ~Less(ToU32(65535), call.bitdepth)
            /\ ~IsProduct(Len(call.data), call.width, call.height))
              => call.result = Err("color vector size does not match dimensions")

\* C27's case: 65536 * 65536 is 0 on 32 bits, and the empty image is
\* refused with these dimensions.
C27_Witness ==
    /\ call.op = "write"
    /\ call.width = ToU32(65536) /\ call.height = ToU32(65536)
    /\ call.data = <<>>
    /\ call.result = Err("color vector size does not match dimensions")

\* C27's case of the tests: u32::MAX by u32::MAX.
C27_WitnessMax ==
    /\ call.op = "write"
    /\ call.width = U32_MAX /\ call.height = U32_MAX
    /\ call.bitdepth = ToU32(255)
    /\ Len(call.data) = 6
    /\ call.result = Err("color vector size does not match dimensions")

\* 'P6', newline, width, space, height, space, bitdepth, newline, the three
\* numbers in decimal ASCII, then the bytes of the pixels in order.
Encoding(c) ==
    <<80, 54, 10>> \o to_string(c.width) \o <<32>> \o to_string(c.height) \o <<32>>
        \o to_string(c.bitdepth) \o <<10>>
        \o [i \in 1..(3 * Len(c.data)) |-> c.data[((i - 1) \div 3) + 1][((i - 1) % 3) + 1]]

\* The encodings of the successful calls of a log, one after the other.
RECURSIVE Encodings(_)
Encodings(log) ==
    IF log = <<>> THEN <<>>
    ELSE IF Head(log).result.ok THEN Encoding(Head(log)) \o Encodings(Tail(log))
    ELSE Encodings(Tail(log))

C28_WitnessRefused ==
    /\ writer.calls = 2
    /\ Len(writer.log) = 1
    /\ writer.log[1].result.ok
    /\ writer.stream = <<80, 54, 10, 49, 32, 49, 32, 50, 53, 53, 10, 255, 0, 0>>

\* C29: Camera::render changes neither the scene nor the camera: after any
\* number of render calls the scene holds the same spheres and materials and
\* the camera's fields are what they were before the first call; render
\* only changes its own accumulator and the buffer it returns.
C29_RenderLeavesSceneAndCamera ==
    [][/\ objects' = objects
       /\ "camera" \in DOMAIN render =>
             /\ "camera" \in DOMAIN render'
             /\ render'.camera = render.camera]_vars

\* C29's case: a second render call on a scene with a sphere has pushed
\* its pixels.
C29_Witness ==
    /\ render.phase = "done"
    /\ render.runs = 2
    /\ Len(render.data) > 0
    /\ objects # <<>>

\* C30: after any sequence of add and clear calls from new(), the list holds
\* exactly the objects added since the most recent clear, in insertion
\* order: add appends its object, clear empties the list and nothing else
\* changes it; hit on an empty list returns none for every ray and
\* interval, and the record hit returns is the hit of an object that is in
\* the list, so an object removed by clear is never hit again.
C30_AddsSinceClear ==
    /\ [][/\ call'.op = "add" => objects' = Append(objects, call'.object)
          /\ call'.op = "clear" => objects' = <<>>
          /\ call'.op \notin {"add", "clear"} => objects' = objects]_vars
    /\ [](call.op = "HittableList_hit" =>
            /\ objects = <<>> => call.result = None
            /\ IsSome(call.result) =>
                  \E i \in 1..Len(objects) :
                      Sphere_hit(objects[i], call.ray, call.ray_t) = call.result)

\* C30's case: on the empty list, a ray that hits one of the spheres that
\* can be added hits nothing.
C30_Witness ==
    /\ call.op = "HittableList_hit"
    /\ objects = <<>>
    /\ call.result = None
    /\ \E s \in SphereSet : IsSome(Sphere_hit(s, call.ray, call.ray_t))

\* C30's other case: a second, different object has been added after the
\* first.
C30_WitnessOrder ==
    /\ call.op = "add"
    /\ Len(objects) = 2
    /\ objects[2] = call.object
    /\ objects[1] # objects[2]

====
